---- MODULE Spec2Model ----
(***************************************************************************)
(* Model of analysis/sqlite_analyser.py and analysis/forward_simulations.py *)
(*   - AnalyseAllFiles.get_data, run by `size` MPI ranks (one scatter,     *)
(*     the per-file loop, one gather, the concatenation and the cache);    *)
(*   - SqliteAnalyser.get_agents, agent_id_or_name, material_transfers,    *)
(*     swu_available, capacity_factor_planned, reactor_operations and      *)
(*     all_reactor_operations over the tables of one Cyclus output file;   *)
(*   - SqliteAnalyser.__init__ and __del__ in the per-file loop;           *)
(*   - main and final_plots with their two get_data calls.                 *)
(* Spec is the batch orchestrator and SpecMain the script around it;       *)
(* SpecAgents, SpecTransfers, SpecSwu, SpecReactor and SpecFleet are the   *)
(* queries on one file; SpecLoop is the life of the analyser objects.      *)
(***************************************************************************)
EXTENDS Integers, Sequences, FiniteSets, TLC

VARIABLES
    \* ---- AnalyseAllFiles / MPI ----
    sqlite_files,    \* self.sqlite_files: the list of file names (distinct)
    size,            \* comm.Get_size()
    force_update,    \* argument of get_data
    store_data,      \* argument of get_data
    eager,           \* MPI implementation: does a non-root gather return before the root collects
    bad,             \* the files whose extraction raises
    data_fname,      \* the cache file: [exists, df]
    pc,              \* rank -> position in get_data
    scatter_buf,     \* the list of lists rank 0 hands to comm.scatter: [sent, lists]
    files_per_task,  \* rank -> the list comm.scatter returned
    i,               \* rank -> loop index of the per-file loop
    d,               \* rank -> rows appended so far; a row is named by the file it was extracted from
    gatherbuf,       \* rank -> what the rank handed to comm.gather: [sent, df]
    data,            \* rank -> self.data
    analysers,       \* rank -> number of SqliteAnalyser objects constructed
    writes,          \* number of data.to_hdf calls
    \* ---- SqliteAnalyser ----
    AgentEntry,      \* table AgentEntry: rows [Spec, AgentId, Prototype]
    Transactions,    \* table Transactions in storage order: rows [Time, SenderId, ReceiverId, ResourceId]
    Resources,       \* table Resources in storage order: rows [ResourceId, Quantity]
    agents, names, specs, agent_ids,   \* the registries built by get_agents
    call,            \* the last call made on the analyser and what it returned
    duration,        \* self.duration: Duration of table Info
    EntryTimes,      \* table AgentEntry, columns EnterTime and Lifetime: AgentId -> [EnterTime, Lifetime]
    SwuInfo,         \* table AgentState_flexicamore_FlexibleEnrichmentInfo: AgentId -> [times, vals]
    ReactorInfo,     \* table AgentState_cycamore_ReactorInfo: AgentId -> [cycle_time, refuel_time]
    ReactorEvents,   \* table ReactorEvents in storage order: rows [AgentId, Time, Event]
    reactor_ops,     \* the dict the last reactor_operations / all_reactor_operations call returned
    \* ---- the SqliteAnalyser objects of one rank's per-file loop ----
    task_files,      \* the rank's files_per_task; a file is named by what opening it meets
    task_i,          \* the loop index
    task_pc,         \* position of the rank in the loop
    instances,       \* the SqliteAnalyser objects created so far
    loop_a,          \* the object the loop variable a refers to (0: unbound)
    unraisable,      \* the exceptions raised inside __del__, which Python prints and ignores
    \* ---- forward_simulations.main ----
    groundtruth_path,  \* args.groundtruth_path is given
    call_no          \* the get_data call the script is at: 1 analyser, 2 gt_analyser

ovars == <<sqlite_files, size, force_update, store_data, eager, bad, data_fname, pc,
           scatter_buf, files_per_task, i, d, gatherbuf, data, analysers, writes>>
xvars == <<AgentEntry, Transactions, Resources, agents, names, specs, agent_ids, call>>
tvars == <<duration, EntryTimes, SwuInfo, ReactorInfo, ReactorEvents, reactor_ops>>
lvars == <<task_files, task_i, task_pc, instances, loop_a, unraisable>>
mvars == <<groundtruth_path, call_no>>
yvars == <<tvars, lvars, mvars>>
vars == <<ovars, xvars, yvars>>

\* ---- bounds ----
MaxFiles == 5
MaxSize == 3

Min(a, b) == IF a < b THEN a ELSE b

Ranks == 0 .. (size - 1)

\* The cached table found on disk before the run; its rows were built from
\* another file list than sqlite_files.
StaleTable == <<101, 102>>

\* ------------------------------------------------------------------------
\* AnalyseAllFiles.get_data: partitioning
\* ------------------------------------------------------------------------

\* Python's s[a:b] for 0 <= a <= b (indices clamp to the length).
Slice(s, a, b) == SubSeq(s, Min(a, Len(s)) + 1, Min(b, Len(s)))

n_per_task(files, sz) == Len(files) \div sz

\* files_per_task = [files[i*n : (i+1)*n] for i in range(size)]
InitialSlices(files, sz) ==
    [k \in 1 .. sz |-> Slice(files, (k - 1) * n_per_task(files, sz), k * n_per_task(files, sz))]

\* The remainder loop with every remainder file appended to files_per_task[0].
RECURSIVE AppendRemainderToFirst(_, _, _, _)
AppendRemainderToFirst(fpt, files, sz, k) ==
    IF k < Len(files) % sz
    THEN AppendRemainderToFirst(
             [fpt EXCEPT ![1] = Append(@, files[sz * n_per_task(files, sz) + k + 1])],
             files, sz, k + 1)
    ELSE fpt

\* while i < len(files) % size: files_per_task[i % size].append(files[size*n + i]); i += 1
RECURSIVE AppendRemainder(_, _, _, _)
AppendRemainder(fpt, files, sz, k) ==
    IF k < Len(files) % sz
    THEN AppendRemainder(
             [fpt EXCEPT ![(k % sz) + 1] = Append(@, files[sz * n_per_task(files, sz) + k + 1])],
             files, sz, k + 1)
    ELSE fpt

\* The partition without the remainder loop.
FilesPerTaskNoRemainder(files, sz) == InitialSlices(files, sz)

FilesPerTask(files, sz) == AppendRemainder(InitialSlices(files, sz), files, sz, 0)

\* data = gatherdata[0]; for d in gatherdata[1:]: data = pd.concat([data, d])
RECURSIVE ConcatFrom(_, _, _)
ConcatFrom(acc, gatherdata, k) ==
    IF k > Len(gatherdata) THEN acc
    ELSE ConcatFrom(acc \o gatherdata[k], gatherdata, k + 1)

\* The concatenation with the loop running over gatherdata instead of gatherdata[1:].
ConcatRepeatFirst(gatherdata) == ConcatFrom(gatherdata[1], gatherdata, 1)

ConcatDataframes(gatherdata) == ConcatFrom(gatherdata[1], gatherdata, 2)

\* ------------------------------------------------------------------------
\* AnalyseAllFiles.get_data: the ranks
\* ------------------------------------------------------------------------

OInit ==
    /\ \E n \in 0 .. MaxFiles : sqlite_files = [k \in 1 .. n |-> k]
    /\ size \in 1 .. MaxSize
    /\ force_update \in BOOLEAN
    /\ store_data \in BOOLEAN
    /\ eager \in BOOLEAN
    /\ bad \in SUBSET {sqlite_files[k] : k \in 1 .. Len(sqlite_files)}
    /\ data_fname \in {[exists |-> FALSE, df |-> <<>>], [exists |-> TRUE, df |-> StaleTable]}
    /\ pc = [r \in Ranks |-> "start"]
    /\ scatter_buf = [sent |-> FALSE, lists |-> <<>>]
    /\ files_per_task = [r \in Ranks |-> <<>>]
    /\ i = [r \in Ranks |-> 0]
    /\ d = [r \in Ranks |-> <<>>]
    /\ gatherbuf = [r \in Ranks |-> [sent |-> FALSE, df |-> <<>>]]
    /\ data = [r \in Ranks |-> <<>>]
    /\ analysers = [r \in Ranks |-> 0]
    /\ writes = 0

\* The cache test with the flag inverted.
CacheHitInverted == data_fname.exists /\ force_update

\* if os.path.isfile(self.data_fname) and not force_update
CacheHit == data_fname.exists /\ ~force_update

\* The cache is present and no refresh is forced: read it and return.
ReadCache(r) ==
    /\ pc[r] = "start"
    /\ CacheHit
    /\ data' = [data EXCEPT ![r] = data_fname.df]
    /\ pc' = [pc EXCEPT ![r] = "done"]
    /\ UNCHANGED <<sqlite_files, size, force_update, store_data, eager, bad, data_fname,
                   scatter_buf, files_per_task, i, d, gatherbuf, analysers, writes, xvars, yvars>>

\* Rank 0 partitions the file list and scatters it; it keeps the first list.
RootScatter ==
    /\ pc[0] = "start"
    /\ ~CacheHit
    /\ scatter_buf' = [sent |-> TRUE, lists |-> FilesPerTask(sqlite_files, size)]
    /\ files_per_task' = [files_per_task EXCEPT ![0] = scatter_buf'.lists[1]]
    /\ pc' = [pc EXCEPT ![0] = "loop"]
    /\ UNCHANGED <<sqlite_files, size, force_update, store_data, eager, bad, data_fname,
                   i, d, gatherbuf, data, analysers, writes, xvars, yvars>>

\* A rank other than 0 calls comm.scatter(None) and blocks.
EnterScatter(r) ==
    /\ r # 0
    /\ pc[r] = "start"
    /\ ~CacheHit
    /\ pc' = [pc EXCEPT ![r] = "scatter"]
    /\ UNCHANGED <<sqlite_files, size, force_update, store_data, eager, bad, data_fname,
                   scatter_buf, files_per_task, i, d, gatherbuf, data, analysers, writes, xvars, yvars>>

\* comm.scatter returns the rank's list once rank 0 has scattered.
ScatterReturn(r) ==
    /\ r # 0
    /\ pc[r] = "scatter"
    /\ scatter_buf.sent
    /\ files_per_task' = [files_per_task EXCEPT ![r] = scatter_buf.lists[r + 1]]
    /\ pc' = [pc EXCEPT ![r] = "loop"]
    /\ UNCHANGED <<sqlite_files, size, force_update, store_data, eager, bad, data_fname,
                   scatter_buf, i, d, gatherbuf, data, analysers, writes, xvars, yvars>>

\* The loop iteration with the extraction wrapped in try/except: continue.
ExtractSkipFailed(r) ==
    /\ pc[r] = "loop"
    /\ i[r] < Len(files_per_task[r])
    /\ analysers' = [analysers EXCEPT ![r] = @ + 1]
    /\ LET f == files_per_task[r][i[r] + 1] IN
        /\ d' = [d EXCEPT ![r] = IF f \in bad THEN @ ELSE Append(@, f)]
        /\ i' = [i EXCEPT ![r] = @ + 1]
        /\ UNCHANGED pc
    /\ UNCHANGED <<sqlite_files, size, force_update, store_data, eager, bad, data_fname,
                   scatter_buf, files_per_task, gatherbuf, data, writes, xvars, yvars>>

\* One iteration of the per-file loop. An error raised by the extraction is
\* not caught: it leaves get_data and ends the rank.
Extract(r) ==
    /\ pc[r] = "loop"
    /\ i[r] < Len(files_per_task[r])
    /\ analysers' = [analysers EXCEPT ![r] = @ + 1]
    /\ LET f == files_per_task[r][i[r] + 1] IN
        IF f \in bad
        THEN /\ pc' = [pc EXCEPT ![r] = "failed"]
             /\ UNCHANGED <<i, d>>
        ELSE /\ d' = [d EXCEPT ![r] = Append(@, f)]
             /\ i' = [i EXCEPT ![r] = @ + 1]
             /\ UNCHANGED pc
    /\ UNCHANGED <<sqlite_files, size, force_update, store_data, eager, bad, data_fname,
                   scatter_buf, files_per_task, gatherbuf, data, writes, xvars, yvars>>

\* A rank other than 0 hands its table to comm.gather. With an eager send the
\* call returns at once and the rank leaves through sys.exit(); otherwise it
\* blocks until rank 0 has collected.
GatherSend(r) ==
    /\ r # 0
    /\ pc[r] = "loop"
    /\ i[r] = Len(files_per_task[r])
    /\ gatherbuf' = [gatherbuf EXCEPT ![r] = [sent |-> TRUE, df |-> d[r]]]
    /\ pc' = [pc EXCEPT ![r] = IF eager THEN "exited" ELSE "gather"]
    /\ UNCHANGED <<sqlite_files, size, force_update, store_data, eager, bad, data_fname,
                   scatter_buf, files_per_task, i, d, data, analysers, writes, xvars, yvars>>

\* The blocked gather of a rank other than 0 returns; the rank calls sys.exit().
GatherReturn(r) ==
    /\ r # 0
    /\ pc[r] = "gather"
    /\ pc[0] = "done"
    /\ scatter_buf.sent
    /\ pc' = [pc EXCEPT ![r] = "exited"]
    /\ UNCHANGED <<sqlite_files, size, force_update, store_data, eager, bad, data_fname,
                   scatter_buf, files_per_task, i, d, gatherbuf, data, analysers, writes, xvars, yvars>>

\* Rank 0 finishes its loop and calls comm.gather.
RootEnterGather ==
    /\ pc[0] = "loop"
    /\ i[0] = Len(files_per_task[0])
    /\ gatherbuf' = [gatherbuf EXCEPT ![0] = [sent |-> TRUE, df |-> d[0]]]
    /\ pc' = [pc EXCEPT ![0] = "gather"]
    /\ UNCHANGED <<sqlite_files, size, force_update, store_data, eager, bad, data_fname,
                   scatter_buf, files_per_task, i, d, data, analysers, writes, xvars, yvars>>

\* comm.gather returns at rank 0 once every rank has contributed: the list is
\* indexed by rank. Rank 0 concatenates, sets self.data and stores the cache.
RootGather ==
    /\ pc[0] = "gather"
    /\ \A r \in Ranks : gatherbuf[r].sent
    /\ LET gatherdata == [k \in 1 .. size |-> gatherbuf[k - 1].df]
           merged == ConcatDataframes(gatherdata)
       IN /\ data' = [data EXCEPT ![0] = merged]
          /\ IF store_data
             THEN /\ data_fname' = [exists |-> TRUE, df |-> merged]
                  /\ writes' = writes + 1
             ELSE UNCHANGED <<data_fname, writes>>
    /\ pc' = [pc EXCEPT ![0] = "done"]
    /\ UNCHANGED <<sqlite_files, size, force_update, store_data, eager, bad,
                   scatter_buf, files_per_task, i, d, gatherbuf, analysers, xvars, yvars>>

Next ==
    \/ \E r \in Ranks : ReadCache(r)
    \/ RootScatter
    \/ \E r \in Ranks : EnterScatter(r)
    \/ \E r \in Ranks : ScatterReturn(r)
    \/ \E r \in Ranks : Extract(r)
    \/ \E r \in Ranks : GatherSend(r)
    \/ \E r \in Ranks : GatherReturn(r)
    \/ RootEnterGather
    \/ RootGather

\* ------------------------------------------------------------------------
\* SqliteAnalyser: values and tables
\* ------------------------------------------------------------------------

MaxAgents == 2
MaxTransactions == 2
MaxResources == 2

\* A Python value passed as agent_id_or_name: its type, and its content.
PyInt(n) == [t |-> "int", s |-> "", n |-> n]
PyStr(s) == [t |-> "str", s |-> s, n |-> 0]
PyOther(t) == [t |-> t, s |-> "", n |-> 0]

\* isinstance(x, int): bool is a subclass of int.
IsInstanceInt(x) == x.t \in {"int", "bool"}

\* The outcome of a call: the exception raised ("" for none) and the value.
Return(v) == [err |-> "", val |-> v]
Raise(e) == [err |-> e, val |-> 0]

\* A string is held as the sequence of its ":" separators and the runs of
\* other characters between them: ":cycamore:Reactor".
SpecStrings == {<<":", "agents", ":", "Sink">>, <<":", "cycamore", ":", "Reactor">>}
Prototypes == {"A", "B"}

\* dict[k] = v
Put(f, k, v) == [x \in (DOMAIN f) \cup {k} |-> IF x = k THEN v ELSE f[x]]

\* idx = [m.start() for m in re.finditer(":", spec)][-1]; spec[idx + 1:]
LastColon(spec) == CHOOSE k \in 1 .. Len(spec) :
                       spec[k] = ":" /\ \A j \in (k + 1) .. Len(spec) : spec[j] # ":"
StripSpec(spec) == SubSeq(spec, LastColon(spec) + 1, Len(spec))

\* specs[spec].append(agent_id) on a defaultdict(list)
AppendTo(f, k, v) == Put(f, k, IF k \in DOMAIN f THEN Append(f[k], v) ELSE <<v>>)

\* The loop of get_agents over the rows of AgentEntry, from row k on.
RECURSIVE get_agents_from(_, _, _)
get_agents_from(reg, query, k) ==
    IF k > Len(query) THEN reg
    ELSE LET agent == query[k]
             spec == StripSpec(agent.Spec)
         IN get_agents_from(
                [agents |-> Put(reg.agents, agent.AgentId, agent.Prototype),
                 names |-> Put(reg.names, agent.Prototype, agent.AgentId),
                 specs |-> AppendTo(reg.specs, spec, agent.AgentId),
                 agent_ids |-> Put(reg.agent_ids, agent.AgentId, spec)],
                query, k + 1)

get_agents(query) ==
    get_agents_from([agents |-> <<>>, names |-> <<>>, specs |-> <<>>, agent_ids |-> <<>>],
                    query, 1)

\* ------------------------------------------------------------------------
\* SqliteAnalyser.agent_id_or_name
\* ------------------------------------------------------------------------

\* The lookup with a default instead of the KeyError: self.names.get(name, -1).
agent_id_or_name_default(x) ==
    IF x.t = "str"
    THEN IF x.s \in DOMAIN names THEN Return(names[x.s]) ELSE Return(-1)
    ELSE IF IsInstanceInt(x) THEN Return(x.n)
    ELSE Raise("ValueError")

agent_id_or_name(x) ==
    IF x.t = "str"
    THEN IF x.s \in DOMAIN names THEN Return(names[x.s]) ELSE Raise("KeyError")
    ELSE IF IsInstanceInt(x) THEN Return(x.n)
    ELSE Raise("ValueError")

\* ------------------------------------------------------------------------
\* SqliteAnalyser.material_transfers
\* ------------------------------------------------------------------------

\* sender_cond / recv_cond: the empty string for the sentinel -1.
sender_cond(sender_id) == IF sender_id = -1 THEN <<>> ELSE <<"SenderId = :sender_id">>
recv_cond(receiver_id) == IF receiver_id = -1 THEN <<>> ELSE <<"ReceiverId = :receiver_id">>

\* The WHERE clause, as the sequence of its tokens.
sqlite_condition(sender_id, receiver_id) ==
    IF sender_cond(sender_id) # <<>> /\ recv_cond(receiver_id) # <<>>
    THEN <<"WHERE", "(">> \o sender_cond(sender_id) \o <<"AND">>
             \o recv_cond(receiver_id) \o <<")">>
    ELSE <<"WHERE", "(">> \o sender_cond(sender_id) \o recv_cond(receiver_id) \o <<")">>

\* sqlite3: "WHERE ()" is a syntax error (an expression is needed between the
\* parentheses); cursor.execute then raises sqlite3.OperationalError.
SqlParses(cond) == cond # <<"WHERE", "(", ")">>

\* sqlite3: a row satisfies the clause when it satisfies each comparison in it.
RowMatches(row, cond, sender_id, receiver_id) ==
    \A k \in 1 .. Len(cond) :
        /\ cond[k] = "SenderId = :sender_id" => row.SenderId = sender_id
        /\ cond[k] = "ReceiverId = :receiver_id" => row.ReceiverId = receiver_id

\* SELECT ... FROM Transactions WHERE ...: the matching rows in storage order.
SelectTransactions(cond, sender_id, receiver_id) ==
    SelectSeq(Transactions, LAMBDA row : RowMatches(row, cond, sender_id, receiver_id))

\* SELECT Time FROM Transactions WHERE ...
transfer_times(cond, sender_id, receiver_id) ==
    LET rows == SelectTransactions(cond, sender_id, receiver_id)
    IN [k \in 1 .. Len(rows) |-> rows[k].Time]

\* SELECT Quantity FROM Resources WHERE ResourceId IN (SELECT ResourceId FROM
\* Transactions WHERE ...): the rows of Resources, in storage order, whose
\* ResourceId is in the set the subquery yields.
transfer_masses(cond, sender_id, receiver_id) ==
    LET sel == SelectTransactions(cond, sender_id, receiver_id)
        ids == {sel[k].ResourceId : k \in 1 .. Len(sel)}
        rows == SelectSeq(Resources, LAMBDA res : res.ResourceId \in ids)
    IN [k \in 1 .. Len(rows) |-> rows[k].Quantity]

\* [[time[0], mass[0]] for time, mass in zip(transfer_times, transfer_masses)]
Zip(times, masses) ==
    [k \in 1 .. Min(Len(times), Len(masses)) |-> <<times[k], masses[k]>>]

RECURSIVE SumMass(_, _)
SumMass(arr, k) == IF k > Len(arr) THEN 0 ELSE arr[k][2] + SumMass(arr, k + 1)

\* The outcome of material_transfers: err, and either pair (sum_) or rows.
Result(err, pair, rows) == [err |-> err, pair |-> pair, rows |-> rows]

material_transfers(sender_id_or_name, receiver_id_or_name, sum_) ==
    LET sender == agent_id_or_name(sender_id_or_name)
        receiver == agent_id_or_name(receiver_id_or_name)
    IN
    IF sender.err # "" THEN Result(sender.err, <<>>, <<>>)
    ELSE IF receiver.err # "" THEN Result(receiver.err, <<>>, <<>>)
    ELSE
    LET cond == sqlite_condition(sender.val, receiver.val) IN
    IF ~SqlParses(cond) THEN Result("OperationalError", <<>>, <<>>)
    ELSE
    LET transfer_array == Zip(transfer_times(cond, sender.val, receiver.val),
                              transfer_masses(cond, sender.val, receiver.val))
    IN
    IF sum_
    THEN \* np.array([]) has shape (0,): transfer_array[:, 1] raises IndexError
         IF transfer_array = <<>> THEN Result("IndexError", <<>>, <<>>)
         ELSE Result("", <<-1, SumMass(transfer_array, 1)>>, <<>>)
    ELSE Result("", <<>>, transfer_array)

\* ------------------------------------------------------------------------
\* SqliteAnalyser: construction and calls
\* ------------------------------------------------------------------------

NoCall == [op |-> "none", a1 |-> PyInt(0), a2 |-> PyInt(0), sum_ |-> FALSE,
           err |-> "", val |-> 0, pair |-> <<>>, rows |-> <<>>]

\* The values the callers pass as an agent: the sentinel, ids, names (one of
\* them never registered), and values of other types.
AgentArgs == {PyInt(-1), PyInt(1), PyInt(2), PyStr("A"), PyStr("B"), PyStr("Z"),
              [t |-> "bool", s |-> "", n |-> 1], PyOther("float"), PyOther("NoneType")}

TransferArgs == {PyInt(-1), PyInt(1), PyStr("B"), PyStr("Z"), PyOther("float")}

\* self.agents, self.names, self.specs, self.agent_ids = self.get_agents()
Constructed ==
    LET reg == get_agents(AgentEntry)
    IN /\ agents = reg.agents
       /\ names = reg.names
       /\ specs = reg.specs
       /\ agent_ids = reg.agent_ids

\* No analyser in use.
XIdle ==
    /\ AgentEntry = <<>>
    /\ Transactions = <<>>
    /\ Resources = <<>>
    /\ agents = <<>>
    /\ names = <<>>
    /\ specs = <<>>
    /\ agent_ids = <<>>
    /\ call = NoCall

\* No further table read.
TIdle ==
    /\ duration = 0
    /\ EntryTimes = <<>>
    /\ SwuInfo = <<>>
    /\ ReactorInfo = <<>>
    /\ ReactorEvents = <<>>
    /\ reactor_ops = <<>>

LIdle ==
    /\ task_files = <<>>
    /\ task_i = 0
    /\ task_pc = "idle"
    /\ instances = <<>>
    /\ loop_a = 0
    /\ unraisable = <<>>

MIdle ==
    /\ groundtruth_path = FALSE
    /\ call_no = 0

YIdle == TIdle /\ LIdle /\ MIdle

\* No batch running.
OIdle ==
    /\ sqlite_files = <<>>
    /\ size = 1
    /\ force_update = FALSE
    /\ store_data = FALSE
    /\ eager = FALSE
    /\ bad = {}
    /\ data_fname = [exists |-> FALSE, df |-> <<>>]
    /\ pc = [r \in {0} |-> "idle"]
    /\ scatter_buf = [sent |-> FALSE, lists |-> <<>>]
    /\ files_per_task = [r \in {0} |-> <<>>]
    /\ i = [r \in {0} |-> 0]
    /\ d = [r \in {0} |-> <<>>]
    /\ gatherbuf = [r \in {0} |-> [sent |-> FALSE, df |-> <<>>]]
    /\ data = [r \in {0} |-> <<>>]
    /\ analysers = [r \in {0} |-> 0]
    /\ writes = 0

\* An analyser over a file whose AgentEntry table has up to MaxAgents rows.
AgentsInit ==
    /\ OIdle
    /\ \E n \in 0 .. MaxAgents :
         \E sp \in [1 .. n -> SpecStrings], pr \in [1 .. n -> Prototypes] :
           AgentEntry = [k \in 1 .. n |->
                           [Spec |-> sp[k], AgentId |-> k, Prototype |-> pr[k]]]
    /\ Transactions = <<>>
    /\ Resources = <<>>
    /\ Constructed
    /\ call = NoCall
    /\ YIdle

CallAgentIdOrName ==
    /\ \E x \in AgentArgs :
         LET r == agent_id_or_name(x)
         IN call' = [NoCall EXCEPT !.op = "agent_id_or_name", !.a1 = x,
                                   !.err = r.err, !.val = r.val]
    /\ UNCHANGED <<AgentEntry, Transactions, Resources, agents, names, specs, agent_ids>>
    /\ UNCHANGED <<ovars, yvars>>

\* The agents of the files the transfers are read from: ":agents:Sink" A = 1,
\* ":cycamore:Reactor" B = 2.
TransferAgents ==
    <<[Spec |-> <<":", "agents", ":", "Sink">>, AgentId |-> 1, Prototype |-> "A"],
      [Spec |-> <<":", "cycamore", ":", "Reactor">>, AgentId |-> 2, Prototype |-> "B"]>>

TimeSteps == {1, 2}
Endpoints == {<<1, 2>>, <<2, 1>>}

\* The Quantity column of the resource with the given ResourceId.
QuantityOf(id) == 10 * id

\* Every ordering of the resources 1 .. MaxResources: the storage order of Resources.
ResourceOrders ==
    {p \in [1 .. MaxResources -> 1 .. MaxResources] :
        \A a, b \in 1 .. MaxResources : a # b => p[a] # p[b]}

\* An analyser over a file with up to MaxTransactions transactions, stored in
\* any order, each referencing one of the MaxResources resources.
TransfersInit ==
    /\ OIdle
    /\ AgentEntry = TransferAgents
    /\ \E n \in 0 .. MaxTransactions :
         \E tm \in [1 .. n -> TimeSteps], ep \in [1 .. n -> Endpoints],
            rs \in [1 .. n -> 1 .. MaxResources] :
           Transactions = [k \in 1 .. n |->
                            [Time |-> tm[k], SenderId |-> ep[k][1],
                             ReceiverId |-> ep[k][2], ResourceId |-> rs[k]]]
    /\ \E p \in ResourceOrders :
         Resources = [k \in 1 .. MaxResources |->
                        [ResourceId |-> p[k], Quantity |-> QuantityOf(p[k])]]
    /\ Constructed
    /\ call = NoCall
    /\ YIdle

CallMaterialTransfers ==
    /\ \E a1 \in TransferArgs, a2 \in TransferArgs, sum_ \in BOOLEAN :
         LET r == material_transfers(a1, a2, sum_)
         IN call' = [NoCall EXCEPT !.op = "material_transfers", !.a1 = a1, !.a2 = a2,
                                   !.sum_ = sum_, !.err = r.err, !.pair = r.pair,
                                   !.rows = r.rows]
    /\ UNCHANGED <<AgentEntry, Transactions, Resources, agents, names, specs, agent_ids>>
    /\ UNCHANGED <<ovars, yvars>>

\* ------------------------------------------------------------------------
\* SqliteAnalyser.swu_available
\* ------------------------------------------------------------------------

MaxKeyframes == 2
MaxTime == 4
MaxDuration == 5

\* The agents of the files get_data reads: the enrichment facility and two reactors.
FuelCycleAgents ==
    <<[Spec |-> <<":", "flexicamore", ":", "FlexibleEnrichment">>, AgentId |-> 1,
       Prototype |-> "EnrichmentFacility"],
      [Spec |-> <<":", "cycamore", ":", "Reactor">>, AgentId |-> 2, Prototype |-> "Khushab1"],
      [Spec |-> <<":", "cycamore", ":", "Reactor">>, AgentId |-> 3, Prototype |-> "Khushab2"]>>

\* range(a, b) as a list
Range(a, b) == [j \in 1 .. (b - a) |-> a + j - 1]

\* The keyframes without the terminal keyframe appended.
NoTerminalKeyframe(kf, enter_time) == kf

\* if swu_times[-1] + enter_time < self.duration: append the terminal keyframe
WithTerminalKeyframe(kf, enter_time) ==
    IF kf.times[Len(kf.times)] + enter_time < duration
    THEN [times |-> Append(kf.times, duration - enter_time),
          vals |-> Append(kf.vals, kf.vals[Len(kf.vals)])]
    ELSE kf

\* for time, val in zip(swu_times, swu_vals): for t in range(previous_time, time):
\*     complete_list += [[t, previous_val]]
RECURSIVE FillTimesteps(_, _, _, _, _)
FillTimesteps(complete_list, kf, k, previous_time, previous_val) ==
    IF k > Min(Len(kf.times), Len(kf.vals)) THEN complete_list
    ELSE FillTimesteps(
             complete_list \o [j \in 1 .. (kf.times[k] - previous_time) |->
                                 <<Range(previous_time, kf.times[k])[j], previous_val>>],
             kf, k + 1, kf.times[k], kf.vals[k])

\* swu_available[:, 0] += enter_time
OffsetTimesteps(complete_list, enter_time) ==
    [k \in 1 .. Len(complete_list) |-> <<complete_list[k][1] + enter_time, complete_list[k][2]>>]

swu_available(agent_id_or_name_, sum_) ==
    LET agent == agent_id_or_name(agent_id_or_name_) IN
    IF agent.err # "" THEN Result(agent.err, <<>>, <<>>)
    \* fetchone() is None when no row has the AgentId
    ELSE IF agent.val \notin DOMAIN EntryTimes THEN Result("TypeError", <<>>, <<>>)
    ELSE IF agent.val \notin DOMAIN SwuInfo THEN Result("TypeError", <<>>, <<>>)
    ELSE
    LET enter_time == EntryTimes[agent.val].EnterTime
        rowdata == SwuInfo[agent.val]
    IN
    IF rowdata.times = <<>> \/ rowdata.vals = <<>> THEN Result("IndexError", <<>>, <<>>)
    ELSE
    LET kf == WithTerminalKeyframe(rowdata, enter_time)
        complete_list == FillTimesteps(<<>>, kf, 1, rowdata.times[1], rowdata.vals[1])
    IN
    \* np.array([]) has shape (0,): swu_available[:, 0] raises IndexError
    IF complete_list = <<>> THEN Result("IndexError", <<>>, <<>>)
    ELSE LET arr == OffsetTimesteps(complete_list, enter_time) IN
         IF sum_ THEN Result("", <<-1, SumMass(arr, 1)>>, <<>>)
         ELSE Result("", <<>>, arr)

SwuValues == {1, 2}

\* The keyframe lists of up to MaxKeyframes strictly increasing times in 0 .. MaxTime.
Keyframes ==
    UNION {{[times |-> tm, vals |-> vl] :
              tm \in {x \in [1 .. n -> 0 .. MaxTime] : \A a \in 1 .. (n - 1) : x[a] < x[a + 1]},
              vl \in [1 .. n -> SwuValues]} : n \in 1 .. MaxKeyframes}

SwuArgs == {PyInt(1), PyStr("EnrichmentFacility"), PyInt(2), PyStr("Z")}

\* An analyser over a file whose enrichment facility entered at EnterTime and
\* has a capacity curve of up to MaxKeyframes keyframes.
SwuInit ==
    /\ OIdle
    /\ AgentEntry = FuelCycleAgents
    /\ Transactions = <<>>
    /\ Resources = <<>>
    /\ Constructed
    /\ call = NoCall
    /\ duration \in 1 .. MaxDuration
    /\ \E et \in 0 .. (duration - 1) :
         EntryTimes = [a \in {1, 2, 3} |-> [EnterTime |-> IF a = 1 THEN et ELSE 0, Lifetime |-> -1]]
    /\ \E kf \in Keyframes : SwuInfo = [a \in {1} |-> kf]
    /\ ReactorInfo = <<>>
    /\ ReactorEvents = <<>>
    /\ reactor_ops = <<>>
    /\ LIdle
    /\ MIdle

CallSwuAvailable ==
    /\ \E x \in SwuArgs, sum_ \in BOOLEAN :
         LET r == swu_available(x, sum_)
         IN call' = [NoCall EXCEPT !.op = "swu_available", !.a1 = x, !.sum_ = sum_,
                                   !.err = r.err, !.pair = r.pair, !.rows = r.rows]
    /\ UNCHANGED <<AgentEntry, Transactions, Resources, agents, names, specs, agent_ids>>
    /\ UNCHANGED <<ovars, yvars>>

\* ------------------------------------------------------------------------
\* SqliteAnalyser.capacity_factor_planned and reactor_operations
\* ------------------------------------------------------------------------

MaxEvents == 4

\* A quotient a / b of two numbers, kept as the pair <<a, b>>.
Quot(a, b) == <<a, b>>
QuotEq(p, q) == p[1] * q[2] = q[1] * p[2]
QuotAdd(p, q) == <<p[1] * q[2] + q[1] * p[2], p[2] * q[2]>>

\* The outcome of a call returning a dict.
DictResult(err, dict) == [err |-> err, data |-> dict]

capacity_factor_planned(agent_id_or_name_) ==
    LET agent == agent_id_or_name(agent_id_or_name_) IN
    IF agent.err # "" THEN DictResult(agent.err, <<>>)
    ELSE IF agent.val \notin DOMAIN agent_ids THEN DictResult("KeyError", <<>>)
    ELSE IF agent_ids[agent.val] # <<"Reactor">> THEN DictResult("ValueError", <<>>)
    \* fetchone() is None when no row has the AgentId
    ELSE IF agent.val \notin DOMAIN ReactorInfo THEN DictResult("TypeError", <<>>)
    ELSE LET cycle_time == ReactorInfo[agent.val].cycle_time
             refuelling_time == ReactorInfo[agent.val].refuel_time
         IN IF cycle_time + refuelling_time = 0 THEN DictResult("ZeroDivisionError", <<>>)
            ELSE DictResult("", [cycle_time |-> cycle_time,
                                 refuelling_time |-> refuelling_time,
                                 capacity_factor_planned |->
                                     Quot(cycle_time, cycle_time + refuelling_time)])

\* SELECT Time, Event FROM ReactorEvents WHERE (AgentId = :agent_id) AND
\* (Event = :cycle_start or Event = :cycle_end)
reactor_events(agent_id) ==
    SelectSeq(ReactorEvents,
              LAMBDA row : row.AgentId = agent_id /\ row.Event \in {"CYCLE_START", "CYCLE_END"})

CountEvents(events, kind) == Cardinality({k \in 1 .. Len(events) : events[k].Event = kind})

\* The check with a threshold of one complete cycle only.
TooFewEventsForCycle(events) == Len(events) < 2

\* if len(reactor_events) < 3: raise RuntimeError
TooFewEvents(events) == Len(events) < 3

\* The online time with (n_end - 1) missing in the last branch.
online_time_all_cycles(events, n_end, cycle_time, refuelling_time) == n_end * cycle_time

\* The online time counted from the cycle starts.
online_time_by_starts(events, n_end, cycle_time, refuelling_time) ==
    CountEvents(events, "CYCLE_START") * cycle_time

\* online_time in the three branches
online_time(events, n_end, cycle_time, refuelling_time) ==
    IF events[Len(events)].Event = "CYCLE_START" THEN n_end * cycle_time
    ELSE IF duration - events[Len(events)].Time > refuelling_time THEN n_end * cycle_time
    ELSE (n_end - 1) * cycle_time

\* total_time in the three branches
total_time(events, refuelling_time) ==
    IF events[Len(events)].Event = "CYCLE_START"
    THEN events[Len(events)].Time - events[1].Time
    ELSE IF duration - events[Len(events)].Time > refuelling_time
    THEN duration - events[1].Time
    ELSE events[Len(events) - 1].Time - events[1].Time

reactor_operations(agent_id_or_name_) ==
    LET agent == agent_id_or_name(agent_id_or_name_) IN
    IF agent.err # "" THEN DictResult(agent.err, <<>>)
    ELSE
    LET planned == capacity_factor_planned(PyInt(agent.val)) IN
    IF planned.err # "" THEN planned
    ELSE IF agent.val \notin DOMAIN EntryTimes THEN DictResult("TypeError", <<>>)
    ELSE
    LET enter_time == EntryTimes[agent.val].EnterTime
        lifetime == EntryTimes[agent.val].Lifetime
        in_sim_time == IF lifetime # -1 THEN lifetime ELSE duration - enter_time
        events == reactor_events(agent.val)
        n_start == CountEvents(events, "CYCLE_START")
        n_end == CountEvents(events, "CYCLE_END")
    IN
    IF TooFewEvents(events) THEN DictResult("RuntimeError", <<>>)
    ELSE
    LET online == online_time(events, n_end, planned.data.cycle_time,
                              planned.data.refuelling_time)
        total == total_time(events, planned.data.refuelling_time)
    IN
    IF total = 0 THEN DictResult("ZeroDivisionError", <<>>)
    ELSE DictResult("", [cycle_time |-> planned.data.cycle_time,
                         refuelling_time |-> planned.data.refuelling_time,
                         capacity_factor_planned |-> planned.data.capacity_factor_planned,
                         in_sim_time |-> in_sim_time,
                         n_start |-> n_start,
                         n_end |-> n_end,
                         capacity_factor_used |-> Quot(online, total),
                         total_cf_time |-> total])

\* The event logs a reactor leaves: up to MaxEvents events at strictly
\* increasing times before the end of the run, CYCLE_START and CYCLE_END
\* alternating from CYCLE_START.
EventLogs(agent_id) ==
    UNION {{[k \in 1 .. n |-> [AgentId |-> agent_id, Time |-> tm[k],
                               Event |-> IF k % 2 = 1 THEN "CYCLE_START" ELSE "CYCLE_END"]] :
              tm \in {x \in [1 .. n -> 0 .. (duration - 1)] :
                         \A a \in 1 .. (n - 1) : x[a] < x[a + 1]}} : n \in 0 .. MaxEvents}

\* Events of other kinds the table also holds.
OtherEvents(agent_id) == {<<>>, <<[AgentId |-> agent_id, Time |-> 0, Event |-> "LOAD"]>>}

CycleTimes == {1, 2}
RefuelTimes == {0, 1, 2}
Lifetimes == {-1, 3}

ReactorArgs == {PyInt(2), PyStr("Khushab1"), PyInt(1), PyStr("Z")}

\* An analyser over a file with the events of reactor 2.
ReactorInit ==
    /\ OIdle
    /\ AgentEntry = FuelCycleAgents
    /\ Transactions = <<>>
    /\ Resources = <<>>
    /\ Constructed
    /\ call = NoCall
    /\ SwuInfo = <<>>
    /\ duration \in 1 .. MaxDuration
    /\ \E lt \in Lifetimes :
         EntryTimes = [a \in {1, 2, 3} |-> [EnterTime |-> 0, Lifetime |-> IF a = 2 THEN lt ELSE -1]]
    /\ \E ct \in CycleTimes, rt \in RefuelTimes :
         ReactorInfo = [a \in {2} |-> [cycle_time |-> ct, refuel_time |-> rt]]
    /\ \E log \in EventLogs(2), other \in OtherEvents(2) : ReactorEvents = other \o log
    /\ reactor_ops = <<>>
    /\ LIdle
    /\ MIdle

CallReactorOperations ==
    /\ \E x \in ReactorArgs :
         LET r == reactor_operations(x)
         IN /\ call' = [NoCall EXCEPT !.op = "reactor_operations", !.a1 = x, !.err = r.err]
            /\ reactor_ops' = r.data
    /\ UNCHANGED <<AgentEntry, Transactions, Resources, agents, names, specs, agent_ids>>
    /\ UNCHANGED <<duration, EntryTimes, SwuInfo, ReactorInfo, ReactorEvents, lvars, mvars>>
    /\ UNCHANGED ovars

\* ------------------------------------------------------------------------
\* SqliteAnalyser.all_reactor_operations
\* ------------------------------------------------------------------------

MaxReactors == 2
MaxFleetDuration == 4

\* The outcome of the loop body for one element of agent_ids_or_names.
ElementOps(x) ==
    LET agent == agent_id_or_name(x) IN
    IF agent.err # "" THEN [err |-> agent.err, id |-> 0, data |-> <<>>]
    ELSE LET r == reactor_operations(PyInt(agent.val))
         IN [err |-> r.err, id |-> agent.val, data |-> r.data]

\* for agent_id in map(self.agent_id_or_name, agent_ids_or_names)
Elements(agent_ids_or_names) ==
    [k \in 1 .. Len(agent_ids_or_names) |-> ElementOps(agent_ids_or_names[k])]

\* The first element of the list at which the loop raises.
FirstFailed(elems) ==
    CHOOSE k \in 1 .. Len(elems) :
        elems[k].err # "" /\ \A j \in 1 .. (k - 1) : elems[j].err = ""

\* all_reactor_ops[agent_id] = reactor_ops: one entry per agent id
PerAgent(elems) ==
    [a \in {elems[k].id : k \in 1 .. Len(elems)} |->
        elems[CHOOSE k \in 1 .. Len(elems) :
                 elems[k].id = a /\ \A j \in (k + 1) .. Len(elems) : elems[j].id # a].data]

\* sum(... for k, v in all_reactor_ops.items() if k != "total") of integers
RECURSIVE SumOverItems(_, _)
SumOverItems(f, S) ==
    IF S = {} THEN 0
    ELSE f[CHOOSE b \in S : TRUE] + SumOverItems(f, S \ {CHOOSE b \in S : TRUE})

\* the same sum of quotients
RECURSIVE SumQuotOverItems(_, _)
SumQuotOverItems(f, S) ==
    IF S = {} THEN Quot(0, 1)
    ELSE QuotAdd(f[CHOOSE b \in S : TRUE], SumQuotOverItems(f, S \ {CHOOSE b \in S : TRUE}))

\* all_reactor_ops["total"][k] += reactor_ops[k], once per element of the list
RECURSIVE SumOverList(_, _, _)
SumOverList(elems, k, key) ==
    IF k > Len(elems) THEN 0
    ELSE (IF key = "n_start" THEN elems[k].data.n_start
          ELSE IF key = "n_end" THEN elems[k].data.n_end
          ELSE elems[k].data.in_sim_time) + SumOverList(elems, k + 1, key)

\* sum(v["in_sim_time"] * v["capacity_factor_planned"] ...)
PlannedSum(per_agent) ==
    SumQuotOverItems([a \in DOMAIN per_agent |->
                         Quot(per_agent[a].in_sim_time * per_agent[a].capacity_factor_planned[1],
                              per_agent[a].capacity_factor_planned[2])], DOMAIN per_agent)

\* sum(v["total_cf_time"] * v["capacity_factor_used"] ...)
UsedSum(per_agent) ==
    SumQuotOverItems([a \in DOMAIN per_agent |->
                         Quot(per_agent[a].total_cf_time * per_agent[a].capacity_factor_used[1],
                              per_agent[a].capacity_factor_used[2])], DOMAIN per_agent)

\* sum(v["total_cf_time"] ...)
CfTimeSum(per_agent) ==
    SumOverItems([a \in DOMAIN per_agent |-> per_agent[a].total_cf_time], DOMAIN per_agent)

\* The two divisions and the returned dict.
FleetDict(elems, per_agent, in_sim_total, planned_sum, used_sum, cf_time_sum) ==
    IF in_sim_total = 0 \/ cf_time_sum = 0 THEN DictResult("ZeroDivisionError", <<>>)
    ELSE DictResult("", [agents |-> per_agent,
                         total |-> [n_start |-> SumOverList(elems, 1, "n_start"),
                                    n_end |-> SumOverList(elems, 1, "n_end"),
                                    in_sim_time |-> in_sim_total,
                                    capacity_factor_planned |->
                                        Quot(planned_sum[1], planned_sum[2] * in_sim_total),
                                    capacity_factor_used |->
                                        Quot(used_sum[1], used_sum[2] * cf_time_sum)]])

FleetTotals(elems, per_agent) ==
    FleetDict(elems, per_agent, SumOverList(elems, 1, "in_sim_time"),
              PlannedSum(per_agent), UsedSum(per_agent), CfTimeSum(per_agent))

FleetOps(elems) ==
    IF \E k \in 1 .. Len(elems) : elems[k].err # ""
    THEN DictResult(elems[FirstFailed(elems)].err, <<>>)
    ELSE FleetTotals(elems, PerAgent(elems))

all_reactor_operations(agent_ids_or_names) == FleetOps(Elements(agent_ids_or_names))

\* The lists of reactors asked for: ids and names, repetitions allowed.
ReactorLists ==
    UNION {[1 .. n -> {PyInt(2), PyInt(3), PyStr("Khushab1")}] : n \in 1 .. MaxReactors}

\* An analyser over a file with the events of the reactors 2 and 3.
FleetRefuelTimes == {0, 1}

FleetInit ==
    /\ OIdle
    /\ AgentEntry = FuelCycleAgents
    /\ Transactions = <<>>
    /\ Resources = <<>>
    /\ Constructed
    /\ call = NoCall
    /\ SwuInfo = <<>>
    /\ duration \in 1 .. MaxFleetDuration
    /\ \E lt \in Lifetimes :
         EntryTimes = [a \in {1, 2, 3} |-> [EnterTime |-> 0, Lifetime |-> IF a = 2 THEN lt ELSE -1]]
    /\ \E ct2 \in CycleTimes, ct3 \in CycleTimes, rt \in FleetRefuelTimes :
         ReactorInfo = [a \in {2, 3} |-> [cycle_time |-> IF a = 2 THEN ct2 ELSE ct3,
                                          refuel_time |-> rt]]
    /\ \E log2 \in EventLogs(2), log3 \in EventLogs(3) : ReactorEvents = log2 \o log3
    /\ reactor_ops = <<>>
    /\ LIdle
    /\ MIdle

CallAllReactorOperations ==
    /\ \E l \in ReactorLists :
         LET r == all_reactor_operations(l)
         IN /\ call' = [NoCall EXCEPT !.op = "all_reactor_operations", !.a1 = l, !.err = r.err]
            /\ reactor_ops' = r.data
    /\ UNCHANGED <<AgentEntry, Transactions, Resources, agents, names, specs, agent_ids>>
    /\ UNCHANGED <<duration, EntryTimes, SwuInfo, ReactorInfo, ReactorEvents, lvars, mvars>>
    /\ UNCHANGED ovars

\* ------------------------------------------------------------------------
\* SqliteAnalyser.__init__ and __del__ in the per-file loop of get_data
\* ------------------------------------------------------------------------

MaxTaskFiles == 3

\* What opening a file meets: a Cyclus database, no file at that path, or a
\* file sqlite3 connects to that has no table Info.
FileKinds == {"cyclus", "missing", "no_info"}

\* __init__: the object as far as it was built, and the exception raised.
\* self.connection is set only after the os.path.isfile test has passed.
SqliteAnalyser_init(fname, kind) ==
    IF kind = "missing"
    THEN [obj |-> [fname |-> fname, connection |-> "unset", closes |-> 0, queries |-> 0,
                   referenced |-> TRUE, finalized |-> FALSE],
          err |-> "FileNotFoundError"]
    ELSE [obj |-> [fname |-> fname, connection |-> "open", closes |-> 0, queries |-> 0,
                   referenced |-> TRUE, finalized |-> FALSE],
          err |-> IF kind = "no_info" THEN "OperationalError" ELSE ""]

\* __del__: self.connection.close(); an object without the attribute raises
\* AttributeError, which is turned into RuntimeError("Error while closing
\* file ..."); raised inside __del__, it is printed and ignored.
SqliteAnalyser_del(obj) ==
    IF obj.connection = "unset"
    THEN [obj |-> [obj EXCEPT !.referenced = FALSE, !.finalized = TRUE],
          report |-> <<[exc |-> "RuntimeError", msg |-> "Error while closing file",
                        fname |-> obj.fname]>>]
    ELSE [obj |-> [obj EXCEPT !.connection = "closed", !.closes = @ + 1,
                              !.referenced = FALSE, !.finalized = TRUE],
          report |-> <<>>]

\* One rank with its list of files, before the loop.
LoopInit ==
    /\ OIdle
    /\ XIdle
    /\ TIdle
    /\ MIdle
    /\ task_files \in UNION {[1 .. n -> FileKinds] : n \in 0 .. MaxTaskFiles}
    /\ task_i = 0
    /\ task_pc = "for"
    /\ instances = <<>>
    /\ loop_a = 0
    /\ unraisable = <<>>

\* a = SqliteAnalyser(f, verbose=False): the object is built first; when
\* __init__ returns, a is rebound and the object a referred to before loses
\* its last reference and is finalized; when __init__ raises, the exception
\* leaves the loop.
Construct ==
    /\ task_pc = "for"
    /\ task_i < Len(task_files)
    /\ LET new == SqliteAnalyser_init(task_i + 1, task_files[task_i + 1])
           idx == Len(instances) + 1
       IN IF new.err # ""
          THEN /\ instances' = Append(instances, new.obj)
               /\ task_pc' = "raised"
               /\ UNCHANGED <<loop_a, unraisable>>
          ELSE /\ instances' = IF loop_a = 0 THEN Append(instances, new.obj)
                               ELSE Append([instances EXCEPT ![loop_a] = SqliteAnalyser_del(@).obj],
                                           new.obj)
               /\ unraisable' = IF loop_a = 0 THEN unraisable
                                ELSE unraisable \o SqliteAnalyser_del(instances[loop_a]).report
               /\ loop_a' = idx
               /\ task_pc' = "body"
    /\ UNCHANGED <<task_files, task_i>>
    /\ UNCHANGED <<ovars, xvars, tvars, mvars>>

\* The queries of the loop body, all made on a.
Query ==
    /\ task_pc = "body"
    /\ instances' = [instances EXCEPT ![loop_a].queries = @ + 1]
    /\ task_i' = task_i + 1
    /\ task_pc' = "for"
    /\ UNCHANGED <<task_files, loop_a, unraisable>>
    /\ UNCHANGED <<ovars, xvars, tvars, mvars>>

\* The loop is exhausted; on the way out of get_data the frame is released
\* and with it the last object.
LeaveLoop ==
    /\ task_pc = "for"
    /\ task_i = Len(task_files)
    /\ instances' = IF loop_a = 0 THEN instances
                    ELSE [instances EXCEPT ![loop_a] = SqliteAnalyser_del(@).obj]
    /\ unraisable' = IF loop_a = 0 THEN unraisable
                     ELSE unraisable \o SqliteAnalyser_del(instances[loop_a]).report
    /\ loop_a' = 0
    /\ task_pc' = "returned"
    /\ UNCHANGED <<task_files, task_i>>
    /\ UNCHANGED <<ovars, xvars, tvars, mvars>>

\* The exception unwinds the frames: every object still referenced is
\* finalized, in an order the interpreter chooses.
Unwind ==
    /\ task_pc = "raised"
    /\ \E o \in 1 .. Len(instances) :
         /\ instances[o].referenced
         /\ instances' = [instances EXCEPT ![o] = SqliteAnalyser_del(@).obj]
         /\ unraisable' = unraisable \o SqliteAnalyser_del(instances[o]).report
         /\ loop_a' = IF loop_a = o THEN 0 ELSE loop_a
    /\ UNCHANGED <<task_files, task_i, task_pc>>
    /\ UNCHANGED <<ovars, xvars, tvars, mvars>>

\* The uncaught exception ends the process.
ExitOnError ==
    /\ task_pc = "raised"
    /\ \A o \in 1 .. Len(instances) : ~instances[o].referenced
    /\ task_pc' = "exited"
    /\ UNCHANGED <<task_files, task_i, instances, loop_a, unraisable>>
    /\ UNCHANGED <<ovars, xvars, tvars, mvars>>

NextLoop ==
    \/ Construct
    \/ Query
    \/ LeaveLoop
    \/ Unwind
    \/ ExitOnError

\* ------------------------------------------------------------------------
\* forward_simulations.main: get_data of the analyser, then final_plots with
\* get_data of the ground-truth analyser, run by every process of the group
\* ------------------------------------------------------------------------

MaxGroundtruthFiles == 2

\* The file lists found under groundtruth_path (after the cut to max_files).
GroundtruthFiles ==
    {f \in UNION {[1 .. n -> {200 + k : k \in 1 .. MaxGroundtruthFiles}] :
                     n \in 0 .. MaxGroundtruthFiles} :
        \A x \in DOMAIN f, y \in DOMAIN f : x # y => f[x] # f[y]}

\* main calls analyser.get_data(force_update=args.force_update); store_data
\* keeps its default.
MainInit ==
    /\ OInit
    /\ store_data = TRUE
    /\ XIdle
    /\ TIdle
    /\ LIdle
    /\ groundtruth_path \in BOOLEAN
    /\ call_no = 1

\* The processes that returned from the first get_data go on to final_plots,
\* build gt_analyser and call gt_analyser.get_data(force_update=False). A
\* process that left through sys.exit() is gone; COMM_WORLD keeps its size.
FinalPlots ==
    /\ call_no = 1
    /\ groundtruth_path
    /\ pc[0] = "done"
    /\ \A r \in Ranks : pc[r] \in {"done", "exited"}
    /\ call_no' = 2
    /\ sqlite_files' \in GroundtruthFiles
    /\ data_fname' \in {[exists |-> FALSE, df |-> <<>>], [exists |-> TRUE, df |-> StaleTable]}
    /\ force_update' = FALSE
    /\ store_data' = TRUE
    /\ pc' = [r \in Ranks |-> IF pc[r] = "done" THEN "start" ELSE pc[r]]
    /\ scatter_buf' = [sent |-> FALSE, lists |-> <<>>]
    /\ files_per_task' = [r \in Ranks |-> <<>>]
    /\ i' = [r \in Ranks |-> 0]
    /\ d' = [r \in Ranks |-> <<>>]
    /\ gatherbuf' = [r \in Ranks |-> [sent |-> FALSE, df |-> <<>>]]
    /\ data' = [r \in Ranks |-> <<>>]
    /\ UNCHANGED <<size, eager, bad, analysers, writes, groundtruth_path>>
    /\ UNCHANGED <<xvars, tvars, lvars>>

NextMain ==
    \/ \E r \in Ranks : ReadCache(r)
    \/ RootScatter
    \/ \E r \in Ranks : EnterScatter(r)
    \/ \E r \in Ranks : ScatterReturn(r)
    \/ \E r \in Ranks : Extract(r)
    \/ \E r \in Ranks : GatherSend(r)
    \/ \E r \in Ranks : GatherReturn(r)
    \/ RootEnterGather
    \/ RootGather
    \/ FinalPlots

\* ------------------------------------------------------------------------
\* Specifications
\* ------------------------------------------------------------------------

Init == OInit /\ XIdle /\ YIdle
Spec == Init /\ [][Next]_vars

SpecAgents == AgentsInit /\ [][CallAgentIdOrName]_vars

SpecTransfers == TransfersInit /\ [][CallMaterialTransfers]_vars

SpecSwu == SwuInit /\ [][CallSwuAvailable]_vars

SpecReactor == ReactorInit /\ [][CallReactorOperations]_vars

SpecFleet == FleetInit /\ [][CallAllReactorOperations]_vars

SpecLoop == LoopInit /\ [][NextLoop]_vars

SpecMain == MainInit /\ [][NextMain]_vars

\* ------------------------------------------------------------------------
\* Properties of get_data
\* ------------------------------------------------------------------------

NFiles == Len(sqlite_files)

RECURSIVE Flatten(_, _)
Flatten(lists, k) == IF k > Len(lists) THEN <<>> ELSE lists[k] \o Flatten(lists, k + 1)

Occurrences(s, x) == Cardinality({k \in 1 .. Len(s) : s[k] = x})

AnyFailed == \E r \in Ranks : pc[r] = "failed"
AllStopped == \A r \in Ranks : pc[r] \in {"done", "exited", "failed"}

\* C1 as stated: the partitions handed to the scatter, concatenated in
\* worker-index order, are the file list in its original order.
C1_ConcatIsOriginal ==
    scatter_buf.sent => Flatten(scatter_buf.lists, 1) = sqlite_files

\* C1 amended: the concatenation in worker-index order holds every file of
\* the list exactly once, and it is in the original order exactly when
\* N mod W = 0 or N < W.
C1_ConcatIsPermutation ==
    scatter_buf.sent =>
        LET c == Flatten(scatter_buf.lists, 1) IN
        /\ Len(c) = NFiles
        /\ \A p \in 1 .. NFiles : Occurrences(c, sqlite_files[p]) = 1
        /\ (c = sqlite_files) <=> (NFiles % size = 0 \/ NFiles < size)

C1_Witness ==
    /\ scatter_buf.sent
    /\ NFiles > size
    /\ NFiles % size # 0
    /\ Flatten(scatter_buf.lists, 1) # sqlite_files

\* C2: the partitions are an exact cover of the file list, every partition
\* has floor(N/W) or floor(N/W)+1 files, and exactly the first N mod W workers
\* hold the larger size.
C2_ExactCoverEvenSizes ==
    scatter_buf.sent =>
        LET fpt == scatter_buf.lists IN
        /\ Len(fpt) = size
        /\ \A p \in 1 .. NFiles :
             Cardinality({<<k, j>> \in (1 .. size) \X (1 .. NFiles) :
                             j <= Len(fpt[k]) /\ fpt[k][j] = sqlite_files[p]}) = 1
        /\ Len(Flatten(fpt, 1)) = NFiles
        /\ \A k \in 1 .. size :
             Len(fpt[k]) = (NFiles \div size) + (IF k - 1 < NFiles % size THEN 1 ELSE 0)

C2_Witness ==
    /\ scatter_buf.sent
    /\ NFiles % size >= 2
    /\ NFiles \div size >= 1
    /\ Len(scatter_buf.lists[2]) = Len(scatter_buf.lists[size]) + 1

\* C3: after a cache-miss run without a failed extraction, self.data of rank 0
\* has one row per input file: the workers' rows in worker-index order, each
\* worker's rows in the order of its assigned files.
C3_MergedInRankOrder ==
    (scatter_buf.sent /\ pc[0] = "done") =>
        /\ \A r \in Ranks : d[r] = scatter_buf.lists[r + 1]
        /\ data[0] = Flatten([k \in 1 .. size |-> d[k - 1]], 1)
        /\ Len(data[0]) = NFiles
        /\ \A p \in 1 .. NFiles : Occurrences(data[0], sqlite_files[p]) = 1

C3_Witness ==
    /\ scatter_buf.sent
    /\ pc[0] = "done"
    /\ NFiles >= 1
    /\ NFiles < size
    /\ \E r \in Ranks : files_per_task[r] = <<>> /\ gatherbuf[r].sent
    /\ Len(data[0]) = NFiles

\* C4: a call that finds the cache file, without force_update, sets self.data
\* to the cached table and returns: no analyser, no scatter, no gather, no
\* write of the cache, whatever the file list; and the rank does nothing more.
C4_CacheHitReturns ==
    [][\A r \in Ranks :
          /\ (pc[r] = "start" /\ data_fname.exists /\ ~force_update /\ pc'[r] # "start") =>
                /\ pc'[r] = "done"
                /\ data'[r] = data_fname.df
                /\ UNCHANGED <<analysers, scatter_buf, gatherbuf, files_per_task,
                               data_fname, writes>>
          /\ (pc[r] = "done" /\ ~scatter_buf.sent) =>
                (pc'[r] = "done" /\ data'[r] = data[r] /\ ~scatter_buf'.sent)]_vars

C4_Witness ==
    /\ \A r \in Ranks : pc[r] = "done" /\ data[r] = StaleTable /\ analysers[r] = 0
    /\ size >= 2
    /\ NFiles >= 1
    /\ ~scatter_buf.sent
    /\ data_fname = [exists |-> TRUE, df |-> StaleTable]
    /\ writes = 0

\* C5: when an extraction fails in any rank, rank 0 never assigns self.data
\* and never writes the cache; and no table that misses a file is ever
\* assigned or stored.
C5_NoPartialTable ==
    /\ AnyFailed =>
          /\ pc[0] # "done"
          /\ data[0] = <<>>
          /\ writes = 0
          /\ data_fname.exists => data_fname.df = StaleTable
    /\ \A t \in {data[0], data_fname.df} :
          \/ t = <<>>
          \/ t = StaleTable
          \/ \A p \in 1 .. NFiles : Occurrences(t, sqlite_files[p]) = 1

C5_Witness ==
    /\ \E r \in Ranks : r # 0 /\ pc[r] = "failed"
    /\ pc[0] = "gather"
    /\ \E r \in Ranks : r # 0 /\ gatherbuf[r].sent /\ gatherbuf[r].df # <<>>
    /\ store_data
    /\ data[0] = <<>>

\* C6 as stated: with W >= 2, once an extraction has failed, every rank
\* eventually stops; so no state is reached where a rank has failed, some
\* rank has not stopped and nothing more can happen.
C6_AbortStopsEveryRank ==
    (size >= 2 /\ AnyFailed /\ ~AllStopped) => ENABLED Next

\* ------------------------------------------------------------------------
\* Properties of the queries
\* ------------------------------------------------------------------------

IsSentinel(x) == x = PyInt(-1)

\* The agent id an accepted argument stands for, read from AgentEntry.
IdOf(x) ==
    IF x.t = "str"
    THEN AgentEntry[CHOOSE k \in 1 .. Len(AgentEntry) :
                        /\ AgentEntry[k].Prototype = x.s
                        /\ \A j \in (k + 1) .. Len(AgentEntry) :
                              AgentEntry[j].Prototype # x.s].AgentId
    ELSE x.n

IsRegistered(nm) == \E k \in 1 .. Len(AgentEntry) : AgentEntry[k].Prototype = nm

\* The arguments that resolve: an int, or a registered name.
Resolves(x) == x.t = "int" \/ (x.t = "str" /\ IsRegistered(x.s))

\* The transaction records a (sender, receiver) pair selects.
MatchingTransactions(a1, a2) ==
    SelectSeq(Transactions,
              LAMBDA tr : /\ IsSentinel(a1) \/ tr.SenderId = IdOf(a1)
                          /\ IsSentinel(a2) \/ tr.ReceiverId = IdOf(a2))

\* The Quantity of the resource with the given ResourceId.
QuantityById(id) ==
    Resources[CHOOSE k \in 1 .. Len(Resources) : Resources[k].ResourceId = id].Quantity

\* One (timestep, mass) row per matching transaction, joined by ResourceId.
JoinedRows(a1, a2) ==
    LET m == MatchingTransactions(a1, a2)
    IN [k \in 1 .. Len(m) |-> <<m[k].Time, QuantityById(m[k].ResourceId)>>]

SameRows(s, t) ==
    /\ Len(s) = Len(t)
    /\ \A k \in 1 .. Len(s) : Occurrences(s, s[k]) = Occurrences(t, s[k])

\* C7 as stated: with both endpoints -1 the call succeeds and includes every
\* record of Transactions; with one endpoint -1 only the other filter applies.
C7_SentinelOmitsFilter ==
    (/\ call.op = "material_transfers"
     /\ ~call.sum_
     /\ Resolves(call.a1) /\ Resolves(call.a2)
     /\ IsSentinel(call.a1) \/ IsSentinel(call.a2)) =>
        /\ call.err = ""
        /\ Len(call.rows) = Len(MatchingTransactions(call.a1, call.a2))
        /\ \A k \in 1 .. Len(call.rows) :
              call.rows[k][1] = MatchingTransactions(call.a1, call.a2)[k].Time

\* C8 as stated: for every pair the non-aggregated call accepts, also one
\* matching no record, sum_=True returns (-1, S), S the sum of the mass column
\* of the non-aggregated result.
C8_SumIsColumnSum ==
    (/\ call.op = "material_transfers"
     /\ call.sum_
     /\ material_transfers(call.a1, call.a2, FALSE).err = "") =>
        /\ call.err = ""
        /\ call.pair = <<-1, SumMass(material_transfers(call.a1, call.a2, FALSE).rows, 1)>>

\* C9 as stated: the non-aggregated result has one (timestep, mass) row per
\* matching transaction, the mass being the Quantity of the resource the
\* transaction references, for any storage order and for shared ResourceIds.
C9_JoinedByResourceId ==
    (/\ call.op = "material_transfers"
     /\ ~call.sum_
     /\ call.err = "") =>
        SameRows(call.rows, JoinedRows(call.a1, call.a2))

\* C10: agent_id_or_name returns the registered id of a registered name,
\* raises KeyError for another string, returns an int unchanged (-1 too),
\* raises ValueError for any other type, and leaves the registries as the
\* constructor built them.
C10_Resolve ==
    /\ Constructed
    /\ call.op = "agent_id_or_name" =>
          LET x == call.a1 IN
          /\ (x.t = "str" /\ IsRegistered(x.s)) => (call.err = "" /\ call.val = IdOf(x))
          /\ (x.t = "str" /\ ~IsRegistered(x.s)) => call.err = "KeyError"
          /\ x.t \in {"int", "bool"} => (call.err = "" /\ call.val = x.n)
          /\ x.t \notin {"str", "int", "bool"} => call.err = "ValueError"

C10_Witness ==
    /\ call.op = "agent_id_or_name"
    /\ call.a1 = PyStr("Z")
    /\ call.err = "KeyError"
    /\ Len(AgentEntry) = MaxAgents
    /\ DOMAIN names = {"A"}

\* ------------------------------------------------------------------------
\* Properties of swu_available
\* ------------------------------------------------------------------------

\* The facility the capacity curve belongs to, by id or by name.
IsFacility(x) == x \in {PyInt(1), PyStr("EnrichmentFacility")}

RowsAt(rows, t) == {k \in 1 .. Len(rows) : rows[k][1] = t}

\* C11 as stated: the non-aggregated result holds each integer timestep from
\* the agent's entry time to the end of the run exactly once, in increasing
\* order, with no gap and none at or beyond the run duration.
C11_DenseFromEntryToEnd ==
    (call.op = "swu_available" /\ ~call.sum_ /\ IsFacility(call.a1)) =>
        /\ call.err = ""
        /\ Len(call.rows) = duration - EntryTimes[1].EnterTime
        /\ \A k \in 1 .. Len(call.rows) : call.rows[k][1] = EntryTimes[1].EnterTime + k - 1

\* C12: in the dense series every timestep entry+t with prev_time <= t <
\* next_time of two adjacent keyframes carries prev_val, and when the last
\* keyframe lies before the end of the run every timestep from it to the end
\* carries the last value.
C12_HoldsEarlierValue ==
    (call.op = "swu_available" /\ ~call.sum_ /\ call.err = "") =>
        LET kf == SwuInfo[1]
            n == Len(kf.times)
            enter == EntryTimes[1].EnterTime
        IN /\ \A k \in 1 .. (n - 1) : \A t \in kf.times[k] .. (kf.times[k + 1] - 1) :
                 /\ Cardinality(RowsAt(call.rows, enter + t)) = 1
                 /\ \A j \in RowsAt(call.rows, enter + t) : call.rows[j][2] = kf.vals[k]
           /\ kf.times[n] + enter < duration =>
                 \A t \in kf.times[n] .. (duration - enter - 1) :
                     /\ Cardinality(RowsAt(call.rows, enter + t)) = 1
                     /\ \A j \in RowsAt(call.rows, enter + t) : call.rows[j][2] = kf.vals[n]

C12_Witness ==
    /\ call.op = "swu_available"
    /\ ~call.sum_
    /\ call.err = ""
    /\ Len(SwuInfo[1].times) = 2
    /\ SwuInfo[1].vals[1] # SwuInfo[1].vals[2]
    /\ SwuInfo[1].times[1] + 2 <= SwuInfo[1].times[2]
    /\ EntryTimes[1].EnterTime >= 1
    /\ SwuInfo[1].times[2] + EntryTimes[1].EnterTime + 2 <= duration

\* ------------------------------------------------------------------------
\* Properties of reactor_operations
\* ------------------------------------------------------------------------

IsReactor2(x) == x \in {PyInt(2), PyStr("Khushab1")}

\* The CYCLE_START / CYCLE_END events recorded for reactor 2.
Cycles2 ==
    SelectSeq(ReactorEvents,
              LAMBDA row : row.AgentId = 2 /\ row.Event \in {"CYCLE_START", "CYCLE_END"})

NEnd2 == Cardinality({k \in 1 .. Len(Cycles2) : Cycles2[k].Event = "CYCLE_END"})

\* C13: with at least 3 events exactly one of three cases is selected by the
\* last event and the time left, online and total are as the case says, and
\* the call returns capacity_factor_used = online / total, total_cf_time = total.
C13_ThreeCases ==
    (call.op = "reactor_operations" /\ IsReactor2(call.a1) /\ Len(Cycles2) >= 3) =>
        LET ev == Cycles2
            n == Len(ev)
            ct == ReactorInfo[2].cycle_time
            rt == ReactorInfo[2].refuel_time
            case1 == ev[n].Event = "CYCLE_START"
            case2 == ev[n].Event = "CYCLE_END" /\ duration - ev[n].Time > rt
            case3 == ev[n].Event = "CYCLE_END" /\ duration - ev[n].Time <= rt
            online == IF case3 THEN (NEnd2 - 1) * ct ELSE NEnd2 * ct
            total == IF case1 THEN ev[n].Time - ev[1].Time
                     ELSE IF case2 THEN duration - ev[1].Time
                     ELSE ev[n - 1].Time - ev[1].Time
        IN /\ Cardinality({c \in {1, 2, 3} : (c = 1 /\ case1) \/ (c = 2 /\ case2)
                                                \/ (c = 3 /\ case3)}) = 1
           /\ call.err = ""
           /\ reactor_ops.total_cf_time = total
           /\ reactor_ops.capacity_factor_used[2] = total
           /\ reactor_ops.capacity_factor_used[1] = online

\* The second example of the claim, scaled: events (0,START),(1,END),(2,START),
\* (3,END), cycle_time 1, refuelling_time 2, duration 5: the third case.
C13_Witness ==
    /\ call.op = "reactor_operations"
    /\ IsReactor2(call.a1)
    /\ call.err = ""
    /\ Len(Cycles2) = 4
    /\ Cycles2[4].Time = 3
    /\ duration = 5
    /\ ReactorInfo[2].refuel_time = 2
    /\ ReactorInfo[2].cycle_time = 1
    /\ reactor_ops.total_cf_time = Cycles2[3].Time - Cycles2[1].Time
    /\ reactor_ops.capacity_factor_used[1] = 1

\* C14: with fewer than 3 CYCLE_START / CYCLE_END events recorded for the
\* reactor the call raises RuntimeError and returns nothing; with 3 or more
\* it does not raise it.
C14_InsufficientEvents ==
    (call.op = "reactor_operations" /\ IsReactor2(call.a1)) =>
        /\ Len(Cycles2) < 3 => (call.err = "RuntimeError" /\ reactor_ops = <<>>)
        /\ Len(Cycles2) >= 3 => call.err # "RuntimeError"

C14_Witness ==
    /\ call.op = "reactor_operations"
    /\ IsReactor2(call.a1)
    /\ Len(Cycles2) = 2
    /\ Len(ReactorEvents) = 3
    /\ call.err = "RuntimeError"

\* C17: for a log of at least 3 events alternating from CYCLE_START, at
\* strictly increasing times within the run, every CYCLE_END exactly
\* cycle_time > 0 after its CYCLE_START, total_time > 0 and
\* 0 <= online_time <= total_time.
C17_UsedFactorInUnitInterval ==
    (/\ call.op = "reactor_operations"
     /\ IsReactor2(call.a1)
     /\ Len(Cycles2) >= 3
     /\ ReactorInfo[2].cycle_time > 0
     /\ \A k \in 1 .. Len(Cycles2) :
           /\ Cycles2[k].Event = (IF k % 2 = 1 THEN "CYCLE_START" ELSE "CYCLE_END")
           /\ Cycles2[k].Time < duration
           /\ k > 1 => Cycles2[k - 1].Time < Cycles2[k].Time
           /\ k % 2 = 0 => Cycles2[k].Time = Cycles2[k - 1].Time + ReactorInfo[2].cycle_time) =>
        /\ call.err = ""
        /\ reactor_ops.capacity_factor_used[2] > 0
        /\ reactor_ops.total_cf_time > 0
        /\ 0 <= reactor_ops.capacity_factor_used[1]
        /\ reactor_ops.capacity_factor_used[1] <= reactor_ops.capacity_factor_used[2]

C17_Witness ==
    /\ call.op = "reactor_operations"
    /\ IsReactor2(call.a1)
    /\ call.err = ""
    /\ Len(Cycles2) = 3
    /\ ReactorInfo[2].cycle_time = 2
    /\ Cycles2[2].Time = Cycles2[1].Time + 2
    /\ reactor_ops.capacity_factor_used = <<2, 3>>

\* ------------------------------------------------------------------------
\* Properties of all_reactor_operations
\* ------------------------------------------------------------------------

\* The agent an element of the list names.
ReactorNamed(x) == IF x \in {PyInt(2), PyStr("Khushab1")} THEN 2 ELSE 3

\* How often the list of the last call names reactor a.
TimesNamed(a) == Cardinality({k \in 1 .. Len(call.a1) : ReactorNamed(call.a1[k]) = a})

\* The mean of the per-agent quotients v weighted by w, each agent a counted
\* m[a] times in the numerator and in the denominator.
WeightedMean(m, w, v) ==
    LET term(a) == IF m[a] = 0 THEN <<0, 1>>
                   ELSE <<m[a] * reactor_ops.agents[a][w] * reactor_ops.agents[a][v][1],
                          reactor_ops.agents[a][v][2]>>
        weight(a) == IF m[a] = 0 THEN 0 ELSE m[a] * reactor_ops.agents[a][w]
        num == <<term(2)[1] * term(3)[2] + term(3)[1] * term(2)[2], term(2)[2] * term(3)[2]>>
    IN <<num[1], num[2] * (weight(2) + weight(3))>>

SameQuotient(p, q) == p[1] * q[2] = q[1] * p[2]

OncePerAgent == [a \in {2, 3} |-> IF TimesNamed(a) > 0 THEN 1 ELSE 0]
OncePerElement == [a \in {2, 3} |-> TimesNamed(a)]

\* C15: for every non-empty list of reactors, repetitions allowed, the
\* 'total' record holds the in_sim_time-weighted mean of the planned factors
\* and the total_cf_time-weighted mean of the used factors, numerator and
\* denominator of each ranging over the same agents (once per agent named,
\* or once per element of the list).
C15_FleetWeightedMeans ==
    (call.op = "all_reactor_operations" /\ call.err = "") =>
        /\ \E m \in {OncePerAgent, OncePerElement} :
              SameQuotient(reactor_ops.total.capacity_factor_planned,
                           WeightedMean(m, "in_sim_time", "capacity_factor_planned"))
        /\ \E m \in {OncePerAgent, OncePerElement} :
              SameQuotient(reactor_ops.total.capacity_factor_used,
                           WeightedMean(m, "total_cf_time", "capacity_factor_used"))

\* ------------------------------------------------------------------------
\* Properties of the SqliteAnalyser objects
\* ------------------------------------------------------------------------

\* C16: every connection opened by an object is closed exactly once, when the
\* object is finalized; the object about to be queried has its connection
\* open; when the rank has left the loop no connection is open; and no
\* failure to close is reported for an object that never opened a connection.
C16_ConnectionLifecycle ==
    task_pc # "idle" =>
        /\ \A o \in 1 .. Len(instances) :
              /\ instances[o].closes <= 1
              /\ (instances[o].finalized /\ instances[o].connection # "unset") =>
                     (instances[o].connection = "closed" /\ instances[o].closes = 1)
              /\ ~instances[o].finalized => instances[o].closes = 0
        /\ task_pc = "body" => instances[loop_a].connection = "open"
        /\ task_pc \in {"returned", "exited"} =>
              \A o \in 1 .. Len(instances) : instances[o].connection # "open"
        /\ \A k \in 1 .. Len(unraisable) :
              unraisable[k].msg = "Error while closing file" =>
                  \E o \in 1 .. Len(instances) :
                      /\ instances[o].fname = unraisable[k].fname
                      /\ instances[o].connection # "unset"

\* ------------------------------------------------------------------------
\* Properties of main
\* ------------------------------------------------------------------------

\* C18: after a first get_data that missed the cache, in which the other
\* ranks left through sys.exit(), the second get_data of rank 0 is never
\* stuck before it has returned: as long as it has not returned, some
\* process can take a step.
C18_SecondCallReturns ==
    (/\ call_no = 2
     /\ \E r \in Ranks : pc[r] = "exited"
     /\ pc[0] # "done") => ENABLED NextMain

====
